---------------------------- MODULE Spec2Model ----------------------------
(***************************************************************************)
(* Model of mol_parse.py: parse_xyz_data turns pasted .xyz text into an    *)
(* atom list, generate_map_content turns the atom list into the lines of   *)
(* a ray-tracer scene (preamble, one sphere per atom, one cylinder per     *)
(* bonded pair), and the module body prints the result.                    *)
(*                                                                         *)
(* Numbers.  The inputs of the model are decimals with at most one         *)
(* fractional digit, so a coordinate is held exactly as an integer number  *)
(* of tenths.  Derived reals are held in units of 1e-4 (the resolution of  *)
(* the ":.4f" fields of the output): a distance is the exact norm          *)
(* truncated to 1e-4, a direction component is the exact quotient rounded  *)
(* to the nearest 1e-4.  A ":.2f" field is an integer number of            *)
(* hundredths.  The comparison distance < bond_threshold is exact in this  *)
(* representation because the thresholds are multiples of 1e-4.            *)
(*                                                                         *)
(* Text.  A token is a sequence of one-character strings, a line is the    *)
(* sequence of its whitespace-separated tokens (what line.split() gives),  *)
(* and the text is the sequence of its lines.                              *)
(***************************************************************************)
EXTENDS Integers, Sequences, FiniteSets, TLC

VARIABLES xyz_data, atoms, content, map_content, printed, pc, i, j

vars == <<xyz_data, atoms, content, map_content, printed, pc, i, j>>

(* Bounds of the model. *)
MaxLines == 3
MaxCalls == 2

-----------------------------------------------------------------------------
(* Integer helpers. *)

Abs(x) == IF x < 0 THEN -x ELSE x

Sign(x) == IF x < 0 THEN -1 ELSE IF x > 0 THEN 1 ELSE 0

RECURSIVE SqrtSearch(_, _, _)
SqrtSearch(x, lo, hi) ==
    IF lo = hi THEN lo
    ELSE LET mid == (lo + hi + 1) \div 2
         IN  IF mid * mid <= x THEN SqrtSearch(x, mid, hi)
                               ELSE SqrtSearch(x, lo, mid - 1)

(* floor(sqrt(x)) *)
ISqrt(x) == SqrtSearch(x, 0, 46340)

-----------------------------------------------------------------------------
(* float(token) for plain decimals: [sign] digits [. digits], with at      *)
(* least one digit.  Any other token makes float raise ValueError.         *)

Digit == {"0", "1", "2", "3", "4", "5", "6", "7", "8", "9"}

DigitVal == ("0" :> 0) @@ ("1" :> 1) @@ ("2" :> 2) @@ ("3" :> 3) @@ ("4" :> 4)
            @@ ("5" :> 5) @@ ("6" :> 6) @@ ("7" :> 7) @@ ("8" :> 8) @@ ("9" :> 9)

Unsigned(tok) ==
    IF Len(tok) > 0 /\ tok[1] \in {"+", "-"} THEN Tail(tok) ELSE tok

DotPositions(s) == {k \in 1..Len(s) : s[k] = "."}

IntPart(s) ==
    IF DotPositions(s) = {} THEN s
    ELSE SubSeq(s, 1, (CHOOSE k \in DotPositions(s) : TRUE) - 1)

FracPart(s) ==
    IF DotPositions(s) = {} THEN <<>>
    ELSE SubSeq(s, (CHOOSE k \in DotPositions(s) : TRUE) + 1, Len(s))

AllDigits(s) == \A k \in 1..Len(s) : s[k] \in Digit

float_ok(tok) ==
    LET s == Unsigned(tok)
    IN  /\ Cardinality(DotPositions(s)) <= 1
        /\ AllDigits(IntPart(s))
        /\ AllDigits(FracPart(s))
        /\ Len(IntPart(s)) + Len(FracPart(s)) > 0

RECURSIVE DigitsVal(_)
DigitsVal(s) ==
    IF s = <<>> THEN 0
    ELSE 10 * DigitsVal(SubSeq(s, 1, Len(s) - 1)) + DigitVal[s[Len(s)]]

(* The value of a parseable token, in tenths. *)
float(tok) ==
    LET s == Unsigned(tok)
        f == FracPart(s)
        m == 10 * DigitsVal(IntPart(s)) + (IF f = <<>> THEN 0 ELSE DigitVal[f[1]])
    IN  IF Len(tok) > 0 /\ tok[1] = "-" THEN -m ELSE m

-----------------------------------------------------------------------------
(* parse_xyz_data *)

(* Variant: only lines of exactly 4 tokens are kept. *)
Malformed_ne(parts) == Len(parts) /= 4

Malformed(parts) == Len(parts) < 4

(* Variant: a line with an unparseable coordinate is skipped. *)
RECURSIVE ParseLines_skipbad(_, _)
ParseLines_skipbad(lines, acc) ==
    IF lines = <<>> THEN [raised |-> FALSE, atoms |-> acc]
    ELSE LET parts == Head(lines)
         IN  IF Len(parts) < 4 \/ \E k \in 2..4 : ~float_ok(parts[k])
             THEN ParseLines_skipbad(Tail(lines), acc)
             ELSE ParseLines_skipbad(Tail(lines),
                      Append(acc, <<parts[1],
                          <<float(parts[2]), float(parts[3]), float(parts[4])>> >>))

RECURSIVE ParseLines(_, _)
ParseLines(lines, acc) ==
    IF lines = <<>> THEN [raised |-> FALSE, atoms |-> acc]
    ELSE LET parts == Head(lines)
         IN  IF Malformed(parts) THEN ParseLines(Tail(lines), acc)
             ELSE IF \E k \in 2..4 : ~float_ok(parts[k])
                  THEN [raised |-> TRUE, atoms |-> <<>>]
                  ELSE ParseLines(Tail(lines),
                           Append(acc, <<parts[1],
                               <<float(parts[2]), float(parts[3]), float(parts[4])>> >>))

parse_xyz_data(text) == ParseLines(text, <<>>)

-----------------------------------------------------------------------------
(* Geometry utilities. *)

VecSub(a, b) == <<a[1] - b[1], a[2] - b[2], a[3] - b[3]>>

NormSq(v) == v[1] * v[1] + v[2] * v[2] + v[3] * v[3]

(* Points in tenths; the result is the norm of point2 - point1 in units of *)
(* 1e-4, truncated.                                                        *)
calculate_distance(point1, point2) ==
    ISqrt(NormSq(VecSub(point2, point1)) * 1000000)

(* round(10^4 * |c| / sqrt(nsq)) with the sign of c, for nsq > 0:          *)
(* round(s) = floor((floor(2s) + 1) / 2) and floor(2s) =                   *)
(* floor(sqrt(floor(4 * 10^8 * c^2 / nsq))), the quotient by long division.*)
UnitComponent(c, nsq) ==
    LET a  == 4 * c * c * 10000
        q  == (a \div nsq) * 10000 + ((a % nsq) * 10000) \div nsq
    IN  Sign(c) * ((ISqrt(q) + 1) \div 2)

(* Variant: the division by the norm is missing. *)
normalize_unscaled(vector) == <<1000 * vector[1], 1000 * vector[2], 1000 * vector[3]>>

(* Variant: a zero vector is replaced by the z axis. *)
normalize_zaxis(vector) ==
    LET nsq == NormSq(vector)
    IN  IF nsq = 0 THEN <<0, 0, 10000>>
        ELSE <<UnitComponent(vector[1], nsq),
               UnitComponent(vector[2], nsq),
               UnitComponent(vector[3], nsq)>>

(* A vector in tenths; the result in units of 1e-4, or the argument itself *)
(* when its norm is 0.                                                     *)
normalize(vector) ==
    LET nsq == NormSq(vector)
    IN  IF nsq = 0 THEN vector
        ELSE <<UnitComponent(vector[1], nsq),
               UnitComponent(vector[2], nsq),
               UnitComponent(vector[3], nsq)>>

default_threshold == 16000

(* Variant: the override recognised in one argument order only. *)
determine_bond_threshold_oneway(atom_type1, atom_type2) ==
    IF atom_type1 = <<"P">> /\ atom_type2 = <<"O">> THEN 18000 ELSE default_threshold

determine_bond_threshold(atom_type1, atom_type2) ==
    IF \/ (atom_type1 = <<"P">> /\ atom_type2 = <<"O">>)
       \/ (atom_type1 = <<"O">> /\ atom_type2 = <<"P">>)
    THEN 18000
    ELSE default_threshold


-----------------------------------------------------------------------------
(* Output lines.  Every line is a record; its numeric fields hold what the *)
(* format specifications print: ":.4f" fields in units of 1e-4, ":.2f"     *)
(* fields in hundredths.                                                   *)

(* ":.2f" of a non-negative value held in units of 1e-4. *)
Fmt2(x) == (x + 50) \div 100

(* ":.4f" of a value held in tenths. *)
Fmt4(x) == 1000 * x

Fmt4Vec(v) == <<Fmt4(v[1]), Fmt4(v[2]), Fmt4(v[3])>>

Preamble ==
    << [kind |-> "A", text |-> "A 0.2 255,255,255"],
       [kind |-> "C", text |-> "C -50.0,0.0,20.0 0.0,0.0,1.0 70"],
       [kind |-> "L", text |-> "L -40.0,50.0,0.0 0.6 10,0,255"] >>

sphere_radius == 10000

cylinder_radius == 2000

SphereColor(atom_type) ==
    IF atom_type = <<"C">> THEN <<128, 128, 128>>
    ELSE IF atom_type = <<"N">> THEN <<0, 0, 255>>
    ELSE IF atom_type = <<"O">> THEN <<255, 0, 0>>
    ELSE IF atom_type = <<"H">> THEN <<255, 255, 255>>
    ELSE IF atom_type = <<"P">> THEN <<255, 165, 0>>
    ELSE <<255, 255, 255>>

SphereLine(atom) ==
    [kind   |-> "sp",
     pos    |-> Fmt4Vec(atom[2]),
     radius |-> Fmt2(sphere_radius * 1),
     color  |-> SphereColor(atom[1])]

(* center = (position1 + position2) / 2, in units of 1e-4 *)
Midpoint(position1, position2) ==
    <<(position1[1] + position2[1]) * 500,
      (position1[2] + position2[2]) * 500,
      (position1[3] + position2[3]) * 500>>

(* Variant: the direction taken from position2 to position1. *)
CylinderLine_reversed(position1, position2, distance) ==
    [kind   |-> "cy",
     center |-> Midpoint(position1, position2),
     dir    |-> normalize(VecSub(position1, position2)),
     radius |-> Fmt2(cylinder_radius * 2),
     length |-> Fmt2(distance),
     color  |-> <<200, 200, 200>>]

CylinderLine(position1, position2, distance) ==
    [kind   |-> "cy",
     center |-> Midpoint(position1, position2),
     dir    |-> normalize(VecSub(position2, position1)),
     radius |-> Fmt2(cylinder_radius * 2),
     length |-> Fmt2(distance),
     color  |-> <<200, 200, 200>>]

(* Variant: the bond test with <= in place of <. *)
IsBond_le(distance, bond_threshold) == distance <= bond_threshold

IsBond(distance, bond_threshold) == distance < bond_threshold

(* Variant: the line is inserted right after the preamble. *)
Emit_insert(lines, line) ==
    SubSeq(lines, 1, 3) \o <<line>> \o SubSeq(lines, 4, Len(lines))

(* content.append(line) *)
Emit(lines, line) == Append(lines, line)

(* Variant: an output of the preamble alone counts as no content. *)
Truthy_strict(joined) == Len(joined) > 3

(* "if map_content": a string is true when it is not empty.  The joined    *)
(* string is empty only when there is no line, every line being non-empty. *)
Truthy(joined) == Len(joined) > 0

NoContentMessage ==
    << [kind |-> "msg",
        text |-> "No map content was generated. Please check the input data."] >>

-----------------------------------------------------------------------------
(* The pasted text: up to MaxLines lines drawn from InputLines. *)

Zero == <<"0">>

InputLines ==
    { <<>>,
      << <<"C">>, <<"x">>, Zero >>,
      << <<"P">>, Zero, Zero, Zero >>,
      << <<"O">>, <<"1", ".", "7">>, Zero, Zero >>,
      << <<"O">>, Zero, <<"1", ".", "8">>, Zero, <<"x">> >>,
      << <<"p">>, <<"+", "0">>, <<"0", ".">>, <<".", "0">> >>,
      << <<"H">>, Zero, Zero, <<"1", ".", "6">> >>,
      << <<"N">>, <<"-", "0", ".", "3">>, <<"0", ".", "4">>, <<"1", ".", "2">> >>,
      << <<"C">>, Zero, <<"z">>, Zero >> }

Texts == UNION {[1..n -> InputLines] : n \in 0..MaxLines}

-----------------------------------------------------------------------------
(* The program. *)

Init ==
    /\ xyz_data \in Texts
    /\ atoms = <<>>
    /\ content = <<>>
    /\ map_content = <<>>
    /\ printed = <<>>
    /\ pc = "parse"
    /\ i = 0
    /\ j = 0

(* atoms = parse_xyz_data(xyz_data); a ValueError ends the program. *)
Parse ==
    /\ pc = "parse"
    /\ LET r == parse_xyz_data(xyz_data)
       IN  IF r.raised
           THEN pc' = "error" /\ atoms' = atoms
           ELSE pc' = "call" /\ atoms' = r.atoms
    /\ UNCHANGED <<xyz_data, content, map_content, printed, i, j>>

(* Variant: content is kept from one call to the next. *)
GenBegin_noreset ==
    /\ pc = "call"
    /\ content' = content \o Preamble
    /\ i' = 1
    /\ pc' = "spheres"
    /\ UNCHANGED <<xyz_data, atoms, map_content, printed, j>>

(* generate_map_content: content = [] and the three preamble lines. *)
GenBegin ==
    /\ pc = "call"
    /\ content' = Preamble
    /\ i' = 1
    /\ pc' = "spheres"
    /\ UNCHANGED <<xyz_data, atoms, map_content, printed, j>>

(* One iteration of the sphere loop, or its end. *)
SphereLoop ==
    /\ pc = "spheres"
    /\ IF i <= Len(atoms)
       THEN /\ content' = Emit(content, SphereLine(atoms[i]))
            /\ i' = i + 1
            /\ UNCHANGED <<pc, j>>
       ELSE /\ i' = 1
            /\ j' = 2
            /\ pc' = "pairs"
            /\ UNCHANGED content
    /\ UNCHANGED <<xyz_data, atoms, map_content, printed>>

(* One step of the nested pair loops: the body for (i, j), the end of the  *)
(* inner loop, or the end of the outer loop.                               *)
PairLoop ==
    /\ pc = "pairs"
    /\ IF i > Len(atoms)
       THEN /\ pc' = "return"
            /\ UNCHANGED <<content, i, j>>
       ELSE IF j > Len(atoms)
       THEN /\ i' = i + 1
            /\ j' = i + 2
            /\ UNCHANGED <<content, pc>>
       ELSE LET atom_type1     == atoms[i][1]
                position1      == atoms[i][2]
                atom_type2     == atoms[j][1]
                position2      == atoms[j][2]
                distance       == calculate_distance(position1, position2)
                bond_threshold == determine_bond_threshold(atom_type1, atom_type2)
            IN  /\ content' = IF IsBond(distance, bond_threshold)
                              THEN Emit(content,
                                        CylinderLine(position1, position2, distance))
                              ELSE content
                /\ j' = j + 1
                /\ UNCHANGED <<pc, i>>
    /\ UNCHANGED <<xyz_data, atoms, map_content, printed>>

(* return "\n".join(content), assigned to map_content by the caller. *)
GenReturn ==
    /\ pc = "return"
    /\ map_content' = content
    /\ pc' = "output"
    /\ UNCHANGED <<xyz_data, atoms, content, printed, i, j>>

(* if map_content: print(map_content) else: print(the failure message) *)
Output ==
    /\ pc = "output"
    /\ printed' = Append(printed, IF Truthy(map_content) THEN map_content
                                                         ELSE NoContentMessage)
    /\ pc' = "done"
    /\ UNCHANGED <<xyz_data, atoms, content, map_content, i, j>>

(* The generator is run again on the same atom list. *)
CallAgain ==
    /\ pc = "done"
    /\ Len(printed) < MaxCalls
    /\ pc' = "call"
    /\ UNCHANGED <<xyz_data, atoms, content, map_content, printed, i, j>>

Next ==
    \/ Parse
    \/ GenBegin
    \/ SphereLoop
    \/ PairLoop
    \/ GenReturn
    \/ Output
    \/ CallAgain

Spec == Init /\ [][Next]_vars

-----------------------------------------------------------------------------
(* Vocabulary of the properties, stated on the atom list and the output    *)
(* without the operators of the generator.                                 *)

N == Len(atoms)

(* generate_map_content has built the whole of content. *)
Generated == pc \in {"return", "output", "done"}

Pairs == {p \in (1..N) \X (1..N) : p[1] < p[2]}

PosOf(k) == atoms[k][2]

TypeOf(k) == atoms[k][1]

(* Squared distance of two atoms, in squared tenths. *)
DistSq(a, b) ==
    (PosOf(b)[1] - PosOf(a)[1]) * (PosOf(b)[1] - PosOf(a)[1])
    + (PosOf(b)[2] - PosOf(a)[2]) * (PosOf(b)[2] - PosOf(a)[2])
    + (PosOf(b)[3] - PosOf(a)[3]) * (PosOf(b)[3] - PosOf(a)[3])

(* d < t for d = sqrt(DistSq)/10 and t in units of 1e-4, by squares. *)
CloserThan(a, b, t) == 1000000 * DistSq(a, b) < t * t

AtThreshold(a, b, t) == 1000000 * DistSq(a, b) = t * t

BondedPairs ==
    {p \in Pairs :
        CloserThan(p[1], p[2], determine_bond_threshold(TypeOf(p[1]), TypeOf(p[2])))}

LinesOfKind(kind) == {k \in DOMAIN content : content[k].kind = kind}

LexLess(p, q) == p[1] < q[1] \/ (p[1] = q[1] /\ p[2] < q[2])

(* The rank of the bonded pair p in the enumeration i ascending, j > i     *)
(* ascending.                                                              *)
Rank(p) == 1 + Cardinality({q \in BondedPairs : LexLess(q, p)})

(* The line of the bonded pair p in a complete output. *)
CylinderOf(p) == content[3 + N + Rank(p)]

Coincide(p) == PosOf(p[1]) = PosOf(p[2])

Dot(u, v) == u[1] * v[1] + u[2] * v[2] + u[3] * v[3]

(* A direction printed with 4 decimals has norm 1 within 1e-4. *)
IsUnit(d) == Abs(Dot(d, d) - 100000000) <= 20000

(* A printed direction d is parallel to v up to the rounding of d. *)
Parallel(d, v) ==
    /\ 2 * Abs(d[1] * v[2] - d[2] * v[1]) <= Abs(v[1]) + Abs(v[2])
    /\ 2 * Abs(d[2] * v[3] - d[3] * v[2]) <= Abs(v[2]) + Abs(v[3])
    /\ 2 * Abs(d[3] * v[1] - d[1] * v[3]) <= Abs(v[3]) + Abs(v[1])

-----------------------------------------------------------------------------
(* C1: a complete output has exactly one sphere line per atom and exactly  *)
(* one cylinder line per pair (i, j), i < j, whose distance is strictly    *)
(* below the threshold of its labels (a pair exactly at its threshold      *)
(* gives none); the cylinder count is at most n(n-1)/2.                    *)
C1_Counts ==
    Generated =>
        /\ Cardinality(LinesOfKind("sp")) = N
        /\ Cardinality(LinesOfKind("cy")) = Cardinality(BondedPairs)
        /\ 2 * Cardinality(LinesOfKind("cy")) <= N * (N - 1)
        /\ Len(content) = 3 + N + Cardinality(BondedPairs)

C1_Witness ==
    /\ pc = "return"
    /\ \E p \in Pairs : p \in BondedPairs
    /\ \E p \in Pairs :
          AtThreshold(p[1], p[2], determine_bond_threshold(TypeOf(p[1]), TypeOf(p[2])))

(* C2: the threshold of two labels is 1.8 exactly when the unordered pair  *)
(* is {"P", "O"} and 1.6 otherwise, and it does not depend on the argument *)
(* order.                                                                  *)
C2_Threshold ==
    \A a \in 1..N : \A b \in 1..N :
        /\ determine_bond_threshold(TypeOf(a), TypeOf(b))
              = IF {TypeOf(a), TypeOf(b)} = {<<"P">>, <<"O">>} THEN 18000 ELSE 16000
        /\ determine_bond_threshold(TypeOf(a), TypeOf(b))
              = determine_bond_threshold(TypeOf(b), TypeOf(a))

C2_Witness ==
    /\ N = 3
    /\ {TypeOf(k) : k \in 1..N} = {<<"O">>, <<"P">>, <<"p">>}
    /\ TypeOf(1) = <<"O">>

(* C3: the output is the preamble, then the sphere lines in atom order,    *)
(* then the cylinder lines in the order of the pair enumeration; at no     *)
(* point of the construction does a cylinder line precede a sphere line.   *)
C3_Order ==
    /\ \A a \in DOMAIN content : \A b \in DOMAIN content :
          a < b => ~(content[a].kind = "cy" /\ content[b].kind = "sp")
    /\ Generated =>
          /\ SubSeq(content, 1, 3) = Preamble
          /\ \A k \in 1..N : content[3 + k] = SphereLine(atoms[k])
          /\ \A p \in BondedPairs :
                CylinderOf(p) =
                    CylinderLine(PosOf(p[1]), PosOf(p[2]),
                                 calculate_distance(PosOf(p[1]), PosOf(p[2])))

C3_Witness ==
    /\ pc = "return"
    /\ N = 3
    /\ Cardinality(BondedPairs) >= 2
    /\ \E k \in DOMAIN content : \E l \in DOMAIN content :
          k < l /\ content[k].kind = "cy" /\ content[l].kind = "cy"
               /\ content[k] /= content[l]

(* C4 as stated: every cylinder line has a direction of norm 1, also for   *)
(* two atoms whose coordinates coincide.                                   *)
C4_AllUnit ==
    \A k \in DOMAIN content : content[k].kind = "cy" => IsUnit(content[k].dir)

(* C4 amended: the cylinder of a bonded pair whose positions differ has a  *)
(* direction of norm 1; the cylinder of a bonded pair whose positions      *)
(* coincide has the zero vector as direction.                              *)
C4_UnitUnlessCoincident ==
    Generated =>
        \A p \in BondedPairs :
            IF Coincide(p)
            THEN Dot(CylinderOf(p).dir, CylinderOf(p).dir) = 0
            ELSE IsUnit(CylinderOf(p).dir)

C4_Witness ==
    /\ pc = "return"
    /\ \E p \in BondedPairs : Coincide(p)
    /\ \E p \in BondedPairs : DistSq(p[1], p[2]) = 41

(* C5: normalize gives the zero vector back for a zero vector, so the      *)
(* cylinder of two atoms at the same position carries the zero vector and  *)
(* length 0, and the generator raises nothing: the only error of a run is  *)
(* the one of the parser, before any line is generated.                    *)
C5_ZeroVector ==
    /\ pc = "error" => parse_xyz_data(xyz_data).raised /\ content = <<>>
    /\ pc \notin {"parse", "error"} => ~parse_xyz_data(xyz_data).raised
    /\ Generated =>
          \A p \in BondedPairs :
              Coincide(p) =>
                  /\ CylinderOf(p).dir = <<0, 0, 0>>
                  /\ CylinderOf(p).length = 0

C5_Witness ==
    /\ pc = "done"
    /\ N = 3
    /\ \A p \in Pairs : Coincide(p)

(* C6: for an empty atom list the output is the three preamble lines and   *)
(* the caller prints them instead of the failure message; for a single     *)
(* atom the output is the preamble and one sphere line.                    *)
C6_EmptyScene ==
    /\ Generated /\ N = 0 => content = Preamble
    /\ pc = "output" /\ N = 0 => map_content = Preamble
    /\ pc = "done" /\ N = 0 =>
          \A k \in DOMAIN printed : printed[k] = Preamble /\ printed[k] /= NoContentMessage
    /\ Generated /\ N = 1 =>
          /\ Len(content) = 4
          /\ content[4].kind = "sp"
          /\ LinesOfKind("cy") = {}

C6_Witness ==
    /\ pc = "done"
    /\ N = 0
    /\ Len(xyz_data) = 2
    /\ printed = <<Preamble>>

(* C7: every run of the generator on the same atom list gives the same     *)
(* output, and the atom list stays the one the parser returned.            *)
C7_Idempotent ==
    /\ \A a \in DOMAIN printed : \A b \in DOMAIN printed : printed[a] = printed[b]
    /\ Generated /\ printed /= <<>> => content = printed[1]
    /\ pc \notin {"parse", "error"} => atoms = parse_xyz_data(xyz_data).atoms

C7_Witness ==
    /\ pc = "done"
    /\ Len(printed) = 2
    /\ N = 3
    /\ LinesOfKind("cy") /= {}

(* C8: the parser returns one atom per line of at least 4 tokens, in line  *)
(* order, made of the first 4 tokens; shorter lines are skipped.           *)
LongEnough(parts) == Len(parts) >= 4

AtomOfLine(parts) ==
    <<parts[1], <<float(parts[2]), float(parts[3]), float(parts[4])>> >>

C8_Parsed ==
    pc \notin {"parse", "error"} =>
        LET kept == SelectSeq(xyz_data, LongEnough)
        IN  atoms = [k \in 1..Len(kept) |-> AtomOfLine(kept[k])]

C8_Witness ==
    /\ pc = "call"
    /\ Len(xyz_data) = 3
    /\ Len(xyz_data[1]) = 3
    /\ Len(xyz_data[2]) = 5
    /\ xyz_data[3] = << <<"N">>, <<"-", "0", ".", "3">>, <<"0", ".", "4">>,
                         <<"1", ".", "2">> >>
    /\ atoms = << << <<"O">>, <<0, 18, 0>> >>, << <<"N">>, <<-3, 4, 12>> >> >>

(* C9: a line of at least 4 tokens with a coordinate token that is not a   *)
(* number makes the run fail in the parser: no atom list, no scene, no     *)
(* output.                                                                 *)
HasLetter(tok) == \E k \in 1..Len(tok) : tok[k] \notin Digit \cup {"+", "-", "."}

GarbledLine(parts) == Len(parts) >= 4 /\ \E k \in 2..4 : HasLetter(parts[k])

C9_Fatal ==
    (pc /= "parse" /\ \E k \in DOMAIN xyz_data : GarbledLine(xyz_data[k])) =>
        /\ pc = "error"
        /\ atoms = <<>>
        /\ content = <<>>
        /\ map_content = <<>>
        /\ printed = <<>>

C9_Witness ==
    /\ pc = "error"
    /\ Len(xyz_data) = 3
    /\ ~GarbledLine(xyz_data[1]) /\ Len(xyz_data[1]) = 4
    /\ GarbledLine(xyz_data[2])
    /\ ~GarbledLine(xyz_data[3]) /\ Len(xyz_data[3]) = 4

(* C10: the cylinder of the bonded pair (i, j), i < j, has the midpoint of *)
(* the two positions as center, the distance of the two positions as       *)
(* length, and normalize(position_j - position_i) as direction, pointing   *)
(* from atom i to atom j; with the two atoms swapped the center and the    *)
(* length are the same and the direction is negated.                       *)
C10_Geometry ==
    Generated =>
        \A p \in BondedPairs :
            LET a    == p[1]
                b    == p[2]
                v    == <<PosOf(b)[1] - PosOf(a)[1], PosOf(b)[2] - PosOf(a)[2],
                          PosOf(b)[3] - PosOf(a)[3]>>
                line == CylinderOf(p)
                back == CylinderLine(PosOf(b), PosOf(a),
                                     calculate_distance(PosOf(b), PosOf(a)))
            IN  /\ \A c \in 1..3 : 2 * line.center[c] = 1000 * (PosOf(a)[c] + PosOf(b)[c])
                /\ line.length >= 0
                /\ line.length > 0 =>
                      (2 * line.length - 1) * (2 * line.length - 1) <= 400 * DistSq(a, b)
                /\ 400 * DistSq(a, b) < (2 * line.length + 1) * (2 * line.length + 1)
                /\ line.dir = normalize(v)
                /\ Parallel(line.dir, v)
                /\ ~Coincide(p) => Dot(line.dir, v) > 0
                /\ back.center = line.center
                /\ back.length = line.length
                /\ back.dir = <<-line.dir[1], -line.dir[2], -line.dir[3]>>

C10_Witness ==
    /\ pc = "return"
    /\ \E p \in BondedPairs :
          /\ TypeOf(p[1]) = <<"N">>
          /\ TypeOf(p[2]) = <<"H">>
          /\ CylinderOf(p).dir = <<4685, -6247, 6247>>
          /\ CylinderOf(p).length = 64
          /\ CylinderOf(p).center = <<-1500, 2000, 14000>>

=============================================================================
